---- MODULE Spec2Model ----
(***************************************************************************)
(* ProtocolSession (core/gather/session.js): one session wrapping a CDP    *)
(* transport.  sendCommand races the transport's response against a timer; *)
(* Inspector.targetCrashed / Inspector.detached record a terminal error.   *)
(*                                                                         *)
(* Time is kept per call: `elapsed` is the time in milliseconds since the  *)
(* call was issued, counted while the call is unsettled.  A timer armed by *)
(* setTimeout fires when its delay has elapsed; time never passes the      *)
(* deadline of an armed timer (Tick stops at it), so a timer fires on      *)
(* time.  The transport is the environment: it settles a send() at any     *)
(* moment with any response or with an error, or never.                    *)
(***************************************************************************)
EXTENDS Integers, Sequences, FiniteSets, TLC

\* ---------------------------------------------------------------- bounds
MaxCalls == 1        \* sendCommand calls per behaviour of Spec
MaxRaceCalls == 2    \* sendCommand calls per behaviour of SpecRace
MaxQueueCalls == 2   \* sendCommand calls per behaviour of SpecTimeout
MaxTime == 35000     \* no call is followed for longer than this
TickStep == 15000    \* largest advance of time in one step
MaxEvents == 3       \* events the transport emits per behaviour of SpecRelay
MaxOverrideCalls == 2 \* sendCommand calls per behaviour of SpecOverride
MaxCoverage == 2     \* script usages in one Profiler.takePreciseCoverage response
MaxArtifactCalls == 2 \* JsUsage.getArtifact calls per behaviour of SpecJsUsage
MaxBatches == 3      \* Tracing.dataCollected events per behaviour of SpecTrace
MaxBatchSize == 3    \* trace events in one Tracing.dataCollected event

\* ---------------------------------------------------- program constants
DEFAULT_PROTOCOL_TIMEOUT == 30000
PPTR_BUFFER == 50
MAX_TIMEOUT == 2147483647 - PPTR_BUFFER

\* `undefined` of the number-typed field _nextProtocolTimeout
Undefined == -1

\* ------------------------------------------------------------ inputs
Methods == {"Profiler.enable", "Profiler.disable"}
Responses == {"r1", "r2"}
TimeoutInputs == {0, 5000, MAX_TIMEOUT, MAX_TIMEOUT + 1}
TargetInfos == {"page"}
Events == {"Inspector.targetCrashed", "Inspector.detached", "Tracing.dataCollected"}
EventParams == {<<>>, <<"p1">>, <<"p1", "p2">>, <<"p2", "p1">>}
Gatherers == {"A", "B", "C"}
SupportedModes == {{"snapshot"}, {"timespan"}}
DependencyNames == {"ImageElements", "DevtoolsLog"}
CrashCodes == {"TARGET_CRASHED", "TARGET_DETACHED"}
GatherModes == {"snapshot", "timespan", "navigation"}
ScriptIds == {"1", "2"}
ScriptUrls == {"a.js", "b.js", "__puppeteer_evaluation_script__"}

VARIABLES
  _nextProtocolTimeout,  \* this._nextProtocolTimeout (Undefined or a number)
  _crashError,           \* this._crashError: "null" or the code of the LighthouseError
  _targetInfo,           \* this._targetInfo
  subscribed,            \* _handleProtocolEvent is registered on the transport ('*')
  detachCalled,          \* cdpSession.detach() has been called
  calls,                 \* the sendCommand calls issued so far, in order
  pendingMs,             \* history: argument of the setNextProtocolTimeout not yet
                         \* consumed by a sendCommand (Undefined if none)
  seen,                  \* history: the crash and detach events that have reached the
                         \* session, each once, in the order they first arrived
  transportLog,          \* history: what happened at the transport, in order: the
                         \* events it emitted and the off() and detach() calls on it
  emitted,               \* history: the events the session emitted to its subscribers
  config,                \* the artifact definitions of the config given to snapshotGather
  pc,                    \* where snapshotGather and its gather function stand
  artifactState,         \* artifactState.getArtifact: per artifact id, what was collected
  gatherLog,             \* history: the driver steps and gatherer hooks invoked, in order
  crashP,                \* the promise of getRejectionCallback()
  runnerGatherP,         \* the promise Runner.gather(gatherFn, ...) returned
  result,                \* the promise snapshotGather returned
  _scriptUsages,         \* JsUsage: this._scriptUsages
  jsUsage,               \* JsUsage: the hook in progress and the commands it has sent,
                         \* with the history of the hooks called on the gatherer
  trace,                 \* TraceGatherer: its listeners on the session, the events it
                         \* has collected and the promise of stopSensitiveInstrumentation
  sweep                  \* a run through all phases: per gatherer and phase, how often
                         \* the hook was invoked and how often it has settled

sessionVars == <<_nextProtocolTimeout, _crashError, _targetInfo, subscribed, detachCalled,
                 calls, pendingMs, seen, transportLog, emitted>>
gatherVars == <<config, pc, artifactState, gatherLog, crashP, runnerGatherP, result>>
gathererVars == <<_scriptUsages, jsUsage, trace, sweep>>
vars == <<sessionVars, gatherVars, gathererVars>>

\* ------------------------------------------------------------ values
Pending == [state |-> "pending", value |-> "none", code |-> "none", protocolMethod |-> "none"]
Resolved(v) == [state |-> "resolved", value |-> v, code |-> "none", protocolMethod |-> "none"]
Rejected(c, m) == [state |-> "rejected", value |-> "none", code |-> c, protocolMethod |-> m]

\* what the transport may settle a send() with
Settlements == {Resolved(v) : v \in Responses} \cup {Rejected("ProtocolError", "none")}

Min(S) == CHOOSE x \in S : \A y \in S : x <= y

\* ------------------------------------------------------------ session.js
\* hasNextProtocolTimeout(): this._nextProtocolTimeout !== undefined
hasNextProtocolTimeout(npt) == npt # Undefined

\* getNextProtocolTimeout(): this._nextProtocolTimeout || DEFAULT_PROTOCOL_TIMEOUT
\* (undefined and 0 are falsy)
getNextProtocolTimeout_Nullish(npt) ==
  IF npt = Undefined THEN DEFAULT_PROTOCOL_TIMEOUT ELSE npt
getNextProtocolTimeout(npt) ==
  IF npt = Undefined \/ npt = 0 THEN DEFAULT_PROTOCOL_TIMEOUT ELSE npt

\* setNextProtocolTimeout: if (ms > MAX_TIMEOUT) ms = MAX_TIMEOUT
ClampTimeout_None(ms) == ms
ClampTimeout(ms) == IF ms > MAX_TIMEOUT THEN MAX_TIMEOUT ELSE ms

\* sendCommand: this._nextProtocolTimeout = undefined
ConsumeOverride_Keep(npt) == npt
ConsumeOverride(npt) == Undefined

\* sendCommand: the third argument of setTimeout, evaluated when the timer is armed:
\* this._crashError ?? new LighthouseError(PROTOCOL_TIMEOUT, {protocolMethod: method})
TimeoutRejection_NoMethod(crashError, method) ==
  IF crashError # "null" THEN Rejected(crashError, "none")
  ELSE Rejected("PROTOCOL_TIMEOUT", "none")
TimeoutRejection(crashError, method) ==
  IF crashError # "null" THEN Rejected(crashError, "none")
  ELSE Rejected("PROTOCOL_TIMEOUT", method)

\* sendCommand: the delay of setTimeout(reject, timeoutMs, ...)
TimerDelay_PlusBuffer(timeoutMs) == timeoutMs + PPTR_BUFFER
TimerDelay(timeoutMs) == timeoutMs

\* sendCommand: the timeout option passed to cdpSession.send
TransportTimeout_NoBuffer(timeoutMs) == timeoutMs
TransportTimeout(timeoutMs) == timeoutMs + PPTR_BUFFER

\* Promise.race([resultPromise, timeoutPromise]): the first settlement wins
Race_LastWins(outcome, settlement) == settlement
Race_RejectionsOnly(outcome, settlement) ==
  IF outcome.state = "pending" /\ settlement.state = "rejected" THEN settlement ELSE outcome
Race(outcome, settlement) ==
  IF outcome.state = "pending" THEN settlement ELSE outcome

\* listener of 'Inspector.targetCrashed'
OnTargetCrashed_Ignored(crashError) == crashError
OnTargetCrashed_FirstCause(crashError) ==
  IF crashError = "null" THEN "TARGET_CRASHED" ELSE crashError
OnTargetCrashed(crashError) == "TARGET_CRASHED"

\* listener of 'Inspector.detached'
OnDetached_Overwrite(crashError) == "TARGET_DETACHED"
OnDetached(crashError) ==
  IF crashError = "null" THEN "TARGET_DETACHED" ELSE crashError

\* _handleProtocolEvent(method, ...params): this.emit(method, ...params)
_handleProtocolEvent_DropsParams(method, params) == [name |-> method, args |-> <<>>]
_handleProtocolEvent(method, params) == [name |-> method, args |-> params]

\* emit(method, ...params): the session's own listeners (listenForCrashes) run
Listeners(crashError, event) ==
  CASE event = "Inspector.targetCrashed" -> OnTargetCrashed(crashError)
    [] event = "Inspector.detached" -> OnDetached(crashError)
    [] OTHER -> crashError

\* ------------------------------------------------------------ state
TerminalEvents == {"Inspector.targetCrashed", "Inspector.detached"}
Delivered(event) == \E k \in 1..Len(seen) : seen[k] = event
crashDelivered == Delivered("Inspector.targetCrashed")
detachDelivered == Delivered("Inspector.detached")

\* the dependencies of an artifact definition: input name -> id of the producer
DependencyMaps == UNION {[names -> Gatherers] : names \in SUBSET DependencyNames}

\* config.artifacts: per artifact id, the meta of its gatherer
Configs == [Gatherers -> [supportedModes : SupportedModes, dependencies : DependencyMaps]]

\* a snapshotGather(page, {config}) call that has not started
InitRun(cfg) ==
  /\ config = cfg
  /\ pc = "initializeConfig"
  /\ artifactState = [g \in Gatherers |-> "none"]
  /\ gatherLog = <<>>
  /\ crashP = Pending
  /\ runnerGatherP = Pending
  /\ result = Pending

InitSession ==
  /\ _nextProtocolTimeout = Undefined
  /\ _crashError = "null"
  /\ _targetInfo = "undefined"
  /\ subscribed = TRUE
  /\ detachCalled = FALSE
  /\ calls = <<>>
  /\ pendingMs = Undefined
  /\ seen = <<>>
  /\ transportLog = <<>>
  /\ emitted = <<>>

\* the session alone: snapshotGather has not been called
NoRun ==
  /\ config = <<>>
  /\ pc = "idle"
  /\ artifactState = <<>>
  /\ gatherLog = <<>>
  /\ crashP = Pending
  /\ runnerGatherP = Pending
  /\ result = Pending

\* no gatherer has been constructed
NoGatherer ==
  /\ _scriptUsages = <<>>
  /\ jsUsage = <<>>
  /\ trace = <<>>
  /\ sweep = <<>>

Init == InitSession /\ NoRun /\ NoGatherer

setTargetInfo ==
  /\ \E info \in TargetInfos : _targetInfo' = info
  /\ UNCHANGED <<_nextProtocolTimeout, _crashError, subscribed, detachCalled, calls,
                 pendingMs, seen, transportLog, emitted>>
  /\ UNCHANGED <<gatherVars, gathererVars>>

setNextProtocolTimeout ==
  /\ \E ms \in TimeoutInputs :
       /\ _nextProtocolTimeout' = ClampTimeout(ms)
       /\ pendingMs' = ms
  /\ UNCHANGED <<_crashError, _targetInfo, subscribed, detachCalled, calls, seen,
                 transportLog, emitted>>
  /\ UNCHANGED <<gatherVars, gathererVars>>

\* the record of one sendCommand call
NewCall(method, npt, crashError) ==
  LET timeoutMs == getNextProtocolTimeout(npt) IN
  [ method |-> method,
    timeoutMs |-> timeoutMs,                        \* effective timeout
    delay |-> TimerDelay(timeoutMs),                \* delay of the armed timer
    transportTimeout |-> TransportTimeout(timeoutMs),
    timer |-> "armed",                              \* armed, fired or cleared
    timerArg |-> TimeoutRejection(crashError, method),
    result |-> Pending,                             \* resultPromise
    outcome |-> Pending,                            \* the promise sendCommand returned
    elapsed |-> 0,                                  \* ms since the call, until it settles
    resultAt |-> Undefined,                         \* history: elapsed when result settled
    afterCrash |-> crashDelivered ]                 \* history: issued after a crash event

sendCommand(maxCalls) ==
  /\ Len(calls) < maxCalls
  /\ \E method \in Methods :
       calls' = Append(calls, NewCall(method, _nextProtocolTimeout, _crashError))
  /\ _nextProtocolTimeout' = ConsumeOverride(_nextProtocolTimeout)
  /\ pendingMs' = Undefined
  /\ UNCHANGED <<_crashError, _targetInfo, subscribed, detachCalled, seen,
                 transportLog, emitted>>
  /\ UNCHANGED <<gatherVars, gathererVars>>

TransportSettle_ClearsAllTimers ==
  /\ \E i \in 1..Len(calls), s \in Settlements :
       /\ calls[i].result.state = "pending"
       /\ LET c == calls[i]
              out == Race(c.outcome, s) IN
          calls' = [j \in 1..Len(calls) |->
                      IF j = i
                      THEN [c EXCEPT !.result = s,
                                     !.resultAt = c.elapsed,
                                     !.outcome = out,
                                     !.timer = IF out.state # "pending" /\ @ = "armed"
                                               THEN "cleared" ELSE @]
                      ELSE [calls[j] EXCEPT !.timer = IF @ = "armed" THEN "cleared" ELSE @]]
  /\ UNCHANGED <<_nextProtocolTimeout, _crashError, _targetInfo, subscribed, detachCalled,
                 pendingMs, seen, transportLog, emitted>>
  /\ UNCHANGED <<gatherVars, gathererVars>>

\* resultPromise settles; the race adopts it if still pending, and finally() clears the timer
TransportSettle ==
  /\ \E i \in 1..Len(calls), s \in Settlements :
       /\ calls[i].result.state = "pending"
       /\ LET c == calls[i]
              out == Race(c.outcome, s) IN
          calls' = [calls EXCEPT ![i] =
                      [c EXCEPT !.result = s,
                                !.resultAt = c.elapsed,
                                !.outcome = out,
                                !.timer = IF out.state # "pending" /\ @ = "armed"
                                          THEN "cleared" ELSE @]]
  /\ UNCHANGED <<_nextProtocolTimeout, _crashError, _targetInfo, subscribed, detachCalled,
                 pendingMs, seen, transportLog, emitted>>
  /\ UNCHANGED <<gatherVars, gathererVars>>

\* an armed timer whose delay has elapsed calls reject(timerArg)
TimerFire ==
  /\ \E i \in 1..Len(calls) :
       /\ calls[i].timer = "armed"
       /\ calls[i].elapsed >= calls[i].delay
       /\ LET c == calls[i] IN
          calls' = [calls EXCEPT ![i] =
                      [c EXCEPT !.timer = "fired",
                                !.outcome = Race(c.outcome, c.timerArg)]]
  /\ UNCHANGED <<_nextProtocolTimeout, _crashError, _targetInfo, subscribed, detachCalled,
                 pendingMs, seen, transportLog, emitted>>
  /\ UNCHANGED <<gatherVars, gathererVars>>

\* the calls time still runs for
Running == {i \in 1..Len(calls) : calls[i].outcome.state = "pending"}

\* time left on the armed timers
Remaining == {calls[i].delay - calls[i].elapsed :
                 i \in {j \in 1..Len(calls) : calls[j].timer = "armed"}}

Tick ==
  /\ Running # {}
  /\ LET step == Min({TickStep} \cup Remaining) IN
       /\ step > 0
       /\ \A i \in Running : calls[i].elapsed + step <= MaxTime
       /\ calls' = [i \in 1..Len(calls) |->
                      IF i \in Running
                      THEN [calls[i] EXCEPT !.elapsed = @ + step]
                      ELSE calls[i]]
  /\ UNCHANGED <<_nextProtocolTimeout, _crashError, _targetInfo, subscribed, detachCalled,
                 pendingMs, seen, transportLog, emitted>>
  /\ UNCHANGED <<gatherVars, gathererVars>>

\* entries of transportLog
EmitEntry(event, params) == [kind |-> "emit", name |-> event, args |-> params]
OffEntry == [kind |-> "off", name |-> "*", args |-> <<>>]
DetachEntry == [kind |-> "detach", name |-> "none", args |-> <<>>]
IsEmit(entry) == entry.kind = "emit"
EmitCount == Len(SelectSeq(transportLog, IsEmit))

\* the transport emits an event; _handleProtocolEvent re-emits it while registered, and
\* the session's listeners run on the re-emitted event.  logged: whether the histories
\* transportLog and emitted follow the events (at most MaxEvents of them); the
\* parameters of an event matter to these histories only.
TransportEmit(logged) ==
  /\ logged => EmitCount < MaxEvents
  /\ \E event \in Events, params \in IF logged THEN EventParams ELSE {<<>>} :
       /\ transportLog' = IF logged THEN Append(transportLog, EmitEntry(event, params))
                          ELSE transportLog
       /\ IF subscribed
          THEN LET relayed == _handleProtocolEvent(event, params) IN
               /\ emitted' = IF logged THEN Append(emitted, relayed) ELSE emitted
               /\ _crashError' = Listeners(_crashError, relayed.name)
               /\ seen' = IF relayed.name \in TerminalEvents /\ ~Delivered(relayed.name)
                          THEN Append(seen, relayed.name) ELSE seen
          ELSE UNCHANGED <<_crashError, seen, emitted>>
  /\ UNCHANGED <<_nextProtocolTimeout, _targetInfo, subscribed, detachCalled, calls,
                 pendingMs>>
  /\ UNCHANGED <<gatherVars, gathererVars>>

dispose_ClearsError ==
  /\ ~detachCalled
  /\ subscribed' = FALSE
  /\ detachCalled' = TRUE
  /\ transportLog' = transportLog \o <<OffEntry, DetachEntry>>
  /\ _crashError' = "null"
  /\ UNCHANGED <<_nextProtocolTimeout, _targetInfo, calls, pendingMs, seen, emitted>>
  /\ UNCHANGED <<gatherVars, gathererVars>>

dispose_KeepsRelay ==
  /\ ~detachCalled
  /\ detachCalled' = TRUE
  /\ transportLog' = transportLog \o <<DetachEntry>>
  /\ UNCHANGED <<_nextProtocolTimeout, _crashError, _targetInfo, subscribed, calls,
                 pendingMs, seen, emitted>>
  /\ UNCHANGED <<gatherVars, gathererVars>>

\* dispose(): cdpSession.off('*', ...), then cdpSession.detach(); called at most once
dispose ==
  /\ ~detachCalled
  /\ subscribed' = FALSE
  /\ detachCalled' = TRUE
  /\ transportLog' = transportLog \o <<OffEntry, DetachEntry>>
  /\ UNCHANGED <<_nextProtocolTimeout, _crashError, _targetInfo, calls,
                 pendingMs, seen, emitted>>
  /\ UNCHANGED <<gatherVars, gathererVars>>

\* every operation of the session, one call at a time
Next ==
  \/ setTargetInfo
  \/ setNextProtocolTimeout
  \/ sendCommand(MaxCalls)
  \/ TransportSettle
  \/ TimerFire
  \/ Tick
  \/ TransportEmit(FALSE)
  \/ dispose

Spec == Init /\ [][Next]_vars

\* several calls in flight at once, racing their timers, the transport and crash events
NextRace ==
  \/ sendCommand(MaxRaceCalls)
  \/ TransportSettle
  \/ TimerFire
  \/ Tick
  \/ TransportEmit(FALSE)

SpecRace == Init /\ [][NextRace]_vars

\* successive calls and their timeout overrides
NextTimeout ==
  \/ setNextProtocolTimeout
  \/ sendCommand(MaxQueueCalls)
  \/ TransportSettle

SpecTimeout == Init /\ [][NextTimeout]_vars

\* several calls in flight, each with the override that was set before it
NextOverride ==
  \/ setNextProtocolTimeout
  \/ sendCommand(MaxOverrideCalls)
  \/ TransportSettle
  \/ TimerFire
  \/ Tick

SpecOverride == Init /\ [][NextOverride]_vars

\* the event relay: the transport's events and the disposal of the session
NextRelay ==
  \/ TransportEmit(TRUE)
  \/ dispose

SpecRelay == Init /\ [][NextRelay]_vars

\* ------------------------------------------------------------ snapshotGather
\* gatherMode of snapshotGather
GatherMode == "snapshot"

\* the phase snapshotGather passes to collectPhaseArtifacts
SnapshotPhase_Instrumentation == "startInstrumentation"
SnapshotPhase == "getArtifact"

\* initializeConfig: the artifact definitions taking part in a run of the mode
Participating_All(cfg, mode) == Gatherers
Participating(cfg, mode) == {g \in Gatherers : mode \in cfg[g].supportedModes}

\* the producers an artifact definition depends on
DependsOn(cfg, g) == {cfg[g].dependencies[n] : n \in DOMAIN cfg[g].dependencies}

\* the definitions reachable from S along dependencies inside P in at most n steps
RECURSIVE ReachableFrom(_, _, _, _)
ReachableFrom(cfg, P, S, n) ==
  IF n = 0 THEN S
  ELSE ReachableFrom(cfg, P, S \cup UNION {DependsOn(cfg, x) \cap P : x \in S}, n - 1)

\* initializeConfig: the dependency mapping of the participating definitions has a cycle
HasCycle_Never(cfg, P) == FALSE
HasCycle(cfg, P) ==
  \E g \in P : g \in ReachableFrom(cfg, P, DependsOn(cfg, g) \cap P, Cardinality(P))

\* initializeConfig: a participating definition depends on an id that does not take part
UnknownDependency(cfg, P) == \E g \in P : ~(DependsOn(cfg, g) \subseteq P)

\* collectPhaseArtifacts: every producer g depends on has been collected or has failed
DependenciesSettled_Always(cfg, state, g) == TRUE
DependenciesSettled(cfg, state, g) == \A d \in DependsOn(cfg, g) : state[d] # "none"

\* collectPhaseArtifacts: the `dependencies` handed to the hook of g
collectArtifactDependencies(cfg, state, g) ==
  [n \in DOMAIN cfg[g].dependencies |-> state[cfg[g].dependencies[n]]]

\* what getArtifact of a gatherer returns or throws
ArtifactValue(g) ==
  CASE g = "A" -> "Artifact A" [] g = "B" -> "Artifact B" [] OTHER -> "Artifact C"
ArtifactError(g) ==
  CASE g = "A" -> "Error A" [] g = "B" -> "Error B" [] OTHER -> "Error C"
ArtifactErrors == {ArtifactError(g) : g \in Gatherers}

\* getBaseArtifacts and baseArtifacts.URL
BaseArtifacts ==
  [k \in {"fetchTime", "URL"} |->
     IF k = "URL" THEN "https://lighthouse.example.com/" ELSE "2020-01-01T00:00:00.000Z"]

\* finalizeArtifacts(baseArtifacts, await awaitArtifacts(artifactState))
finalizeArtifacts_DropsFailures(base, state, P) ==
  [k \in DOMAIN base \cup {g \in P : state[g] \notin ArtifactErrors} |->
     IF k \in DOMAIN base THEN base[k] ELSE state[k]]
finalizeArtifacts(base, state, P) ==
  [k \in DOMAIN base \cup P |-> IF k \in DOMAIN base THEN base[k] ELSE state[k]]

\* Promise.race([crashP, runnerGatherP]) and the return of snapshotGather
GatherRace_GatherWins(outcome, settlement) ==
  IF outcome.state = "pending" \/ settlement.state = "resolved" THEN settlement ELSE outcome
GatherRace(outcome, settlement) ==
  IF outcome.state = "pending" THEN settlement ELSE outcome

\* a LighthouseError as a value, and the `instanceof LighthouseError` test
LighthouseError(code) == [lighthouseError |-> code]
IsLighthouseError(value) == "lighthouseError" \in DOMAIN value

\* runnerOptions = {resolvedConfig, computedCache}
RunnerOptions(cfg) ==
  [resolvedConfig |-> [g \in Participating(cfg, GatherMode) |-> cfg[g]],
   computedCache |-> {}]

\* what snapshotGather does with the settlement of the race: a rejection is thrown by
\* the await, a LighthouseError value is turned into a rejection, anything else is
\* returned as the artifacts
SnapshotOutcome_NoCheck(cfg, settlement) ==
  IF settlement.state = "resolved"
  THEN Resolved([artifacts |-> settlement.value, runnerOptions |-> RunnerOptions(cfg)])
  ELSE settlement
SnapshotOutcome(cfg, settlement) ==
  IF settlement.state = "resolved"
  THEN IF IsLighthouseError(settlement.value)
       THEN Rejected(settlement.value.lighthouseError, "none")
       ELSE Resolved([artifacts |-> settlement.value, runnerOptions |-> RunnerOptions(cfg)])
  ELSE settlement

\* entries of gatherLog
DriverEntry(step) == [kind |-> "driver", id |-> "driver", hook |-> step, dependencies |-> <<>>]
HookEntry(g, hook, deps) == [kind |-> "hook", id |-> g, hook |-> hook, dependencies |-> deps]
Logged(entry) == \E k \in 1..Len(gatherLog) : gatherLog[k] = entry

\* initializeConfig('snapshot', config, flags): filters by mode and validates the graph
initializeConfig ==
  /\ pc = "initializeConfig"
  /\ LET P == Participating(config, GatherMode) IN
     IF HasCycle(config, P) \/ UnknownDependency(config, P)
     THEN /\ result' = Rejected("ConfigurationError", "none")
          /\ pc' = "rejected"
     ELSE /\ pc' = "connect"
          /\ UNCHANGED result
  /\ UNCHANGED <<config, artifactState, gatherLog, crashP, runnerGatherP>>
  /\ UNCHANGED <<sessionVars, gathererVars>>

\* one awaited driver step of the gather function; a step that throws fails the function
DriverStep(step, next) ==
  /\ pc = step
  /\ gatherLog' = Append(gatherLog, DriverEntry(step))
  /\ \E ok \in BOOLEAN :
       IF ok
       THEN /\ pc' = next
            /\ UNCHANGED <<runnerGatherP, result>>
       ELSE /\ pc' = "failed"
            /\ runnerGatherP' = Rejected("DriverError", "none")
            /\ result' = GatherRace(result,
                                    SnapshotOutcome(config, Rejected("DriverError", "none")))
  /\ UNCHANGED <<config, artifactState, crashP>>
  /\ UNCHANGED <<sessionVars, gathererVars>>

connect == DriverStep("connect", "url")
url == DriverStep("url", "getBaseArtifacts")
getBaseArtifacts_SkipsSweep == DriverStep("getBaseArtifacts", "disconnect")
getBaseArtifacts == DriverStep("getBaseArtifacts", "collectPhaseArtifacts")
disconnect == DriverStep("disconnect", "finalizeArtifacts")

\* collectPhaseArtifacts: the hook of one definition whose dependencies are settled
\* runs; what it returns or throws is kept as the artifact
getArtifact ==
  /\ pc = "collectPhaseArtifacts"
  /\ \E g \in Participating(config, GatherMode) :
       /\ artifactState[g] = "none"
       /\ DependenciesSettled(config, artifactState, g)
       /\ gatherLog' = Append(gatherLog,
             HookEntry(g, SnapshotPhase, collectArtifactDependencies(config, artifactState, g)))
       /\ \E artifact \in {ArtifactValue(g), ArtifactError(g)} :
            artifactState' = [artifactState EXCEPT ![g] = artifact]
  /\ UNCHANGED <<config, pc, crashP, runnerGatherP, result>>
  /\ UNCHANGED <<sessionVars, gathererVars>>

\* collectPhaseArtifacts returns once every participating definition has its artifact
collectPhaseArtifacts ==
  /\ pc = "collectPhaseArtifacts"
  /\ \A g \in Participating(config, GatherMode) : artifactState[g] # "none"
  /\ pc' = "disconnect"
  /\ UNCHANGED <<config, artifactState, gatherLog, crashP, runnerGatherP, result>>
  /\ UNCHANGED <<sessionVars, gathererVars>>

\* the gather function returns the bundle and Runner.gather settles with it
gatherFnReturn ==
  /\ pc = "finalizeArtifacts"
  /\ LET bundle == finalizeArtifacts(BaseArtifacts, artifactState,
                                     Participating(config, GatherMode)) IN
       /\ runnerGatherP' = Resolved(bundle)
       /\ result' = GatherRace(result, SnapshotOutcome(config, Resolved(bundle)))
  /\ pc' = "done"
  /\ UNCHANGED <<config, artifactState, gatherLog, crashP>>
  /\ UNCHANGED <<sessionVars, gathererVars>>

\* the crash signal: the callback handed to driver.connect is called with the error;
\* crashP settles with it, as a rejection or as the value it resolves with
crashRej ==
  /\ crashP.state = "pending"
  /\ Logged(DriverEntry("connect"))
  /\ ~Logged(DriverEntry("disconnect"))
  /\ \E code \in CrashCodes :
       \E settlement \in {Rejected(code, "none"), Resolved(LighthouseError(code))} :
         /\ crashP' = settlement
         /\ result' = GatherRace(result, SnapshotOutcome(config, settlement))
  /\ UNCHANGED <<config, pc, artifactState, gatherLog, runnerGatherP>>
  /\ UNCHANGED <<sessionVars, gathererVars>>

NextGather ==
  \/ initializeConfig
  \/ connect
  \/ url
  \/ getBaseArtifacts
  \/ getArtifact
  \/ collectPhaseArtifacts
  \/ disconnect
  \/ gatherFnReturn
  \/ crashRej

InitGather == InitSession /\ NoGatherer /\ \E cfg \in Configs : InitRun(cfg)

SpecGather == InitGather /\ [][NextGather]_vars

\* ------------------------------------------------------------ JsUsage
\* the entries of a Profiler.takePreciseCoverage response
ScriptCoverages == [scriptId : ScriptIds, url : ScriptUrls]
CoverageResults == UNION {[1..n -> ScriptCoverages] : n \in 0..MaxCoverage}

\* the session commands a hook awaits, one after the other
Commands_DisableBeforeStop(hook) ==
  IF hook = "startInstrumentation"
  THEN <<"Profiler.enable", "Profiler.startPreciseCoverage">>
  ELSE <<"Profiler.takePreciseCoverage", "Profiler.disable", "Profiler.stopPreciseCoverage">>
Commands(hook) ==
  IF hook = "startInstrumentation"
  THEN <<"Profiler.enable", "Profiler.startPreciseCoverage">>
  ELSE <<"Profiler.takePreciseCoverage", "Profiler.stopPreciseCoverage", "Profiler.disable">>

\* the loop of getArtifact over this._scriptUsages
RECURSIVE UsageLoop(_, _)
UsageLoop(usageByScriptId, usages) ==
  IF usages = <<>> THEN usageByScriptId
  ELSE LET scriptUsage == Head(usages) IN
       UsageLoop(IF scriptUsage.url = "__puppeteer_evaluation_script__"
                 THEN usageByScriptId
                 ELSE [id \in DOMAIN usageByScriptId \cup {scriptUsage.scriptId} |->
                         IF id = scriptUsage.scriptId THEN scriptUsage
                         ELSE usageByScriptId[id]],
                 Tail(usages))

RECURSIVE UsageLoop_FirstWins(_, _)
UsageLoop_FirstWins(usageByScriptId, usages) ==
  IF usages = <<>> THEN usageByScriptId
  ELSE LET scriptUsage == Head(usages) IN
       UsageLoop_FirstWins(
         IF scriptUsage.url = "__puppeteer_evaluation_script__"
            \/ scriptUsage.scriptId \in DOMAIN usageByScriptId
         THEN usageByScriptId
         ELSE [id \in DOMAIN usageByScriptId \cup {scriptUsage.scriptId} |->
                 IF id = scriptUsage.scriptId THEN scriptUsage ELSE usageByScriptId[id]],
         Tail(usages))

usageByScriptId_FirstWins(usages) == UsageLoop_FirstWins(<<>>, usages)
usageByScriptId(usages) == UsageLoop(<<>>, usages)

\* new JsUsage(), about to be run by the caller in the given mode
InitJsUsage ==
  /\ _scriptUsages = <<>>
  /\ \E mode \in GatherModes :
       jsUsage = [mode |-> mode, hook |-> "none", step |-> 0, sent |-> <<>>,
                  completed |-> {}, failed |-> FALSE, taken |-> <<>>, artifacts |-> <<>>]

\* a command of the hook in progress goes to the session
Send(hook, step) == [hook |-> hook, method |-> Commands(hook)[step], state |-> "pending"]

\* the caller invokes an instrumentation hook: it runs up to its first await
InvokeHook(hook) ==
  /\ jsUsage.hook = "none"
  /\ ~jsUsage.failed
  /\ jsUsage.mode # "snapshot"
  /\ hook \notin jsUsage.completed
  /\ jsUsage' = [jsUsage EXCEPT !.hook = hook, !.step = 1,
                                !.sent = Append(@, Send(hook, 1))]
  /\ UNCHANGED _scriptUsages
  /\ UNCHANGED <<sessionVars, gatherVars, trace, sweep>>

startInstrumentation == InvokeHook("startInstrumentation")

stopInstrumentation ==
  /\ "startInstrumentation" \in jsUsage.completed
  /\ InvokeHook("stopInstrumentation")

\* the awaited command settles and the hook runs on to its next await, or to its end;
\* a rejection is thrown out of the hook and fails the run
CommandSettles ==
  /\ jsUsage.hook # "none"
  /\ LET hook == jsUsage.hook
         step == jsUsage.step
         n == Len(jsUsage.sent)
         stored == hook = "stopInstrumentation" /\ step = 1 IN
     \/ /\ jsUsage' = [jsUsage EXCEPT !.sent[n].state = "rejected",
                                      !.hook = "none", !.failed = TRUE]
        /\ UNCHANGED _scriptUsages
     \/ \E coverage \in IF stored THEN CoverageResults ELSE {<<>>} :
          /\ _scriptUsages' = IF stored THEN coverage ELSE _scriptUsages
          /\ jsUsage' =
               IF step < Len(Commands(hook))
               THEN [jsUsage EXCEPT !.sent = Append([@ EXCEPT ![n].state = "resolved"],
                                                     Send(hook, step + 1)),
                                    !.step = step + 1,
                                    !.taken = IF stored THEN coverage ELSE @]
               ELSE [jsUsage EXCEPT !.sent[n].state = "resolved",
                                    !.hook = "none",
                                    !.completed = @ \cup {hook},
                                    !.taken = IF stored THEN coverage ELSE @]
  /\ UNCHANGED <<sessionVars, gatherVars, trace, sweep>>

\* getArtifact(): called once the instrumentation hooks of the mode have completed
JsUsage_getArtifact ==
  /\ jsUsage.hook = "none"
  /\ ~jsUsage.failed
  /\ jsUsage.mode # "snapshot" => "stopInstrumentation" \in jsUsage.completed
  /\ Len(jsUsage.artifacts) < MaxArtifactCalls
  /\ jsUsage' = [jsUsage EXCEPT !.artifacts = Append(@, usageByScriptId(_scriptUsages))]
  /\ UNCHANGED _scriptUsages
  /\ UNCHANGED <<sessionVars, gatherVars, trace, sweep>>

NextJsUsage ==
  \/ startInstrumentation
  \/ stopInstrumentation
  \/ CommandSettles
  \/ JsUsage_getArtifact

InitJsUsageRun == InitSession /\ NoRun /\ InitJsUsage /\ trace = <<>> /\ sweep = <<>>

SpecJsUsage == InitJsUsageRun /\ [][NextJsUsage]_vars

\* ------------------------------------------------------- TraceGatherer
\* what the data listener does with the events of a Tracing.dataCollected event
CollectEvents_KeepsLastBatch(traceEvents, batch) == batch
CollectEvents(traceEvents, batch) == traceEvents \o batch

\* new TraceGatherer(), tracing started
InitTrace ==
  trace = [hook |-> "none", dataListener |-> FALSE, completeListener |-> FALSE,
           offCalled |-> FALSE, sent |-> <<>>, traceEvents |-> <<>>,
           stopPromise |-> "none", batches |-> 0, emitted |-> 0, received |-> 0,
           completeSeen |-> FALSE, artifacts |-> <<>>]

\* stopSensitiveInstrumentation(context): listens for the data and for the end of the
\* trace, and sends Tracing.end
stopSensitiveInstrumentation ==
  /\ trace.hook = "none"
  /\ trace' = [trace EXCEPT !.hook = "stopSensitiveInstrumentation",
                            !.dataListener = TRUE,
                            !.completeListener = TRUE,
                            !.sent = Append(@, "Tracing.end"),
                            !.stopPromise = "pending"]
  /\ UNCHANGED <<sessionVars, gatherVars, _scriptUsages, jsUsage, sweep>>

\* the session emits Tracing.dataCollected with the next trace events of the target
dataCollected ==
  /\ trace.hook # "none"
  /\ trace.batches < MaxBatches
  /\ \E n \in 1..MaxBatchSize :
       LET batch == [i \in 1..n |-> trace.emitted + i] IN
         trace' = [trace EXCEPT
                     !.batches = @ + 1,
                     !.emitted = @ + n,
                     !.received = IF trace.completeSeen THEN @ ELSE @ + n,
                     !.traceEvents = IF trace.dataListener
                                     THEN CollectEvents(@, batch) ELSE @]
  /\ UNCHANGED <<sessionVars, gatherVars, _scriptUsages, jsUsage, sweep>>

\* the session emits Tracing.tracingComplete: the once-listener takes the data
\* listener off the session and the promise of the hook resolves
tracingComplete ==
  /\ trace.completeListener
  /\ trace' = [trace EXCEPT !.completeListener = FALSE,
                            !.dataListener = FALSE,
                            !.offCalled = TRUE,
                            !.completeSeen = TRUE,
                            !.stopPromise = "resolved",
                            !.hook = "completed"]
  /\ UNCHANGED <<sessionVars, gatherVars, _scriptUsages, jsUsage, sweep>>

\* getArtifact() after the hook has completed
Trace_getArtifact ==
  /\ trace.stopPromise = "resolved"
  /\ trace.artifacts = <<>>
  /\ trace' = [trace EXCEPT !.artifacts = <<[traceEvents |-> trace.traceEvents]>>]
  /\ UNCHANGED <<sessionVars, gatherVars, _scriptUsages, jsUsage, sweep>>

NextTrace ==
  \/ stopSensitiveInstrumentation
  \/ dataCollected
  \/ tracingComplete
  \/ Trace_getArtifact

InitTraceRun ==
  /\ InitSession /\ NoRun /\ InitTrace
  /\ _scriptUsages = <<>> /\ jsUsage = <<>> /\ sweep = <<>>

SpecTrace == InitTraceRun /\ [][NextTrace]_vars

\* --------------------------------------------------------- phase sweeps
\* the hooks of a gatherer, in the order of the phases
Phases ==
  <<"startInstrumentation", "startSensitiveInstrumentation",
    "stopSensitiveInstrumentation", "stopInstrumentation", "getArtifact">>
PhaseNames == {Phases[p] : p \in DOMAIN Phases}

\* the phases a run of the mode sweeps: a snapshot has nothing to instrument
SweptPhases(mode) == IF mode = "snapshot" THEN <<"getArtifact">> ELSE Phases

\* where the run goes when the sweep of a phase is over: the activity lies between
\* the two sensitive sweeps
AfterPhase(phase) ==
  CASE phase = "startInstrumentation" -> "startSensitiveInstrumentation"
    [] phase = "startSensitiveInstrumentation" -> "activity"
    [] phase = "stopSensitiveInstrumentation" -> "stopInstrumentation"
    [] phase = "stopInstrumentation" -> "getArtifact"
    [] OTHER -> "done"

\* the sweep of a phase is over when the hook of every participating gatherer has settled
SweepSettled_NoBarrier(cfg, sw, phase) == TRUE
SweepSettled(cfg, sw, phase) ==
  \A g \in Participating(cfg, sw.mode) : sw.settled[g][phase] = 1

\* configs whose gatherers have no dependencies, and a run about to sweep its first phase
SweepConfigs == {cfg \in Configs : \A g \in Gatherers : cfg[g].dependencies = <<>>}
InitSweep ==
  /\ \E cfg \in SweepConfigs : config = cfg
  /\ artifactState = [g \in Gatherers |-> "none"]
  /\ gatherLog = <<>>
  /\ crashP = Pending
  /\ runnerGatherP = Pending
  /\ result = Pending
  /\ \E mode \in {"snapshot", "timespan"} :
       /\ pc = SweptPhases(mode)[1]
       /\ sweep = [mode |-> mode, activity |-> 0,
                   invoked |-> [g \in Gatherers |-> [p \in PhaseNames |-> 0]],
                   settled |-> [g \in Gatherers |-> [p \in PhaseNames |-> 0]]]

\* the hook of the phase is invoked on a participating gatherer that has not had it
hookStart ==
  /\ pc \in PhaseNames
  /\ \E g \in Participating(config, sweep.mode) :
       /\ sweep.invoked[g][pc] = 0
       /\ sweep' = [sweep EXCEPT !.invoked[g][pc] = 1]
  /\ UNCHANGED <<config, pc, artifactState, gatherLog, crashP, runnerGatherP, result>>
  /\ UNCHANGED <<sessionVars, _scriptUsages, jsUsage, trace>>

\* a hook settles: a failed instrumentation hook fails the run, a failed getArtifact
\* is kept as the artifact of its gatherer
hookSettle ==
  /\ pc \in PhaseNames
  /\ \E g \in Participating(config, sweep.mode) :
       /\ sweep.invoked[g][pc] > sweep.settled[g][pc]
       /\ sweep' = [sweep EXCEPT !.settled[g][pc] = 1]
       /\ \E ok \in BOOLEAN :
            IF pc = "getArtifact"
            THEN /\ artifactState' =
                      [artifactState EXCEPT
                         ![g] = IF ok THEN ArtifactValue(g) ELSE ArtifactError(g)]
                 /\ UNCHANGED <<pc, result>>
            ELSE /\ pc' = IF ok THEN pc ELSE "failed"
                 /\ result' = IF ok THEN result ELSE Rejected("HookError", "none")
                 /\ UNCHANGED artifactState
  /\ UNCHANGED <<config, gatherLog, crashP, runnerGatherP>>
  /\ UNCHANGED <<sessionVars, _scriptUsages, jsUsage, trace>>

\* the sweep of the phase is over: the run goes on to the next phase, to the
\* activity, or returns the bundle
nextSweep ==
  /\ pc \in PhaseNames
  /\ SweepSettled(config, sweep, pc)
  /\ pc' = AfterPhase(pc)
  /\ result' = IF pc = "getArtifact"
               THEN Resolved(finalizeArtifacts(BaseArtifacts, artifactState,
                                               Participating(config, sweep.mode)))
               ELSE result
  /\ UNCHANGED <<config, artifactState, gatherLog, crashP, runnerGatherP>>
  /\ UNCHANGED <<sessionVars, _scriptUsages, jsUsage, trace, sweep>>

\* the caller's activity, between the two sensitive sweeps
activity ==
  /\ pc = "activity"
  /\ sweep' = [sweep EXCEPT !.activity = @ + 1]
  /\ pc' = "stopSensitiveInstrumentation"
  /\ UNCHANGED <<config, artifactState, gatherLog, crashP, runnerGatherP, result>>
  /\ UNCHANGED <<sessionVars, _scriptUsages, jsUsage, trace>>

NextSweep ==
  \/ hookStart
  \/ hookSettle
  \/ nextSweep
  \/ activity

InitSweepRun ==
  /\ InitSession /\ InitSweep
  /\ _scriptUsages = <<>> /\ jsUsage = <<>> /\ trace = <<>>

SpecSweep == InitSweepRun /\ [][NextSweep]_vars

\* ================================================================ claims
CallIds == 1..Len(calls)
Settled(i) == calls[i].outcome.state # "pending"

\* C1: every sendCommand call issued after an Inspector.targetCrashed event reached
\* the session fails with TARGET_CRASHED: once settled, it is never resolved with a
\* transport response and never rejected with another error.
C1_AfterCrashFailsWithCrash ==
  \A i \in CallIds :
    (calls[i].afterCrash /\ Settled(i)) =>
      calls[i].outcome = Rejected("TARGET_CRASHED", "none")

\* C2: when the timer of a call fires while a terminal error is recorded, also one
\* recorded after the call was issued, the call fails with that terminal error.
C2_TimerFiresWithRecordedError ==
  [][\A i \in CallIds :
       (calls[i].timer = "armed" /\ calls'[i].timer = "fired" /\ _crashError # "null") =>
         calls'[i].outcome = Rejected(_crashError, "none")]_vars

\* C3: a response of the transport that arrives before the effective timeout of its
\* call has elapsed is what sendCommand resolves with.
C3_ResponseBeforeTimeoutWins ==
  \A i \in CallIds :
    (calls[i].result.state = "resolved" /\ calls[i].resultAt < calls[i].timeoutMs) =>
      calls[i].outcome = calls[i].result

C3_Witness ==
  \E i \in CallIds :
    /\ calls[i].result.state = "resolved"
    /\ calls[i].resultAt > 0
    /\ calls[i].resultAt < calls[i].timeoutMs
    /\ calls[i].outcome = calls[i].result
    /\ calls[i].timer = "cleared"

C5_DetachKeepsCrash ==
  [][/\ crashDelivered => _crashError' = "TARGET_CRASHED"
     /\ (~detachDelivered /\ detachDelivered' /\ _crashError = "null") =>
          _crashError' = "TARGET_DETACHED"]_vars

C5_Witness ==
  /\ seen = <<"Inspector.targetCrashed", "Inspector.detached">>
  /\ _crashError = "TARGET_CRASHED"

\* C6: no operation of the session sets a recorded terminal error back to null.
C6_TerminalErrorSticky ==
  [][_crashError # "null" => _crashError' # "null"]_vars

C6_Witness ==
  /\ _crashError # "null"
  /\ detachCalled
  /\ _targetInfo # "undefined"
  /\ _nextProtocolTimeout # Undefined
  /\ calls # <<>>
  /\ calls[1].timerArg.code = _crashError

C8_SettlesWithinTimeout ==
  \A i \in CallIds : calls[i].elapsed <= calls[i].timeoutMs

C8_Witness ==
  \E i \in CallIds :
    /\ calls[i].result.state = "pending"
    /\ calls[i].timer = "fired"
    /\ calls[i].outcome.state = "rejected"
    /\ calls[i].elapsed = calls[i].timeoutMs

\* C9: the override stored by setNextProtocolTimeout(ms) is min(ms, MAX_TIMEOUT), so
\* no call has an effective timeout above MAX_TIMEOUT.
C9_OverrideClamped ==
  /\ pendingMs # Undefined => _nextProtocolTimeout = Min({pendingMs, MAX_TIMEOUT})
  /\ \A i \in CallIds : calls[i].timeoutMs <= MAX_TIMEOUT

C9_Witness ==
  /\ pendingMs > MAX_TIMEOUT
  /\ _nextProtocolTimeout = MAX_TIMEOUT
  /\ \E i \in CallIds : calls[i].timeoutMs = MAX_TIMEOUT

\* C10: a call whose timer fires while no terminal error is recorded fails with
\* PROTOCOL_TIMEOUT carrying the method of that call.
C10_TimeoutCarriesOwnMethod ==
  \A i \in CallIds :
    (calls[i].timer = "fired" /\ _crashError = "null") =>
      calls[i].outcome = Rejected("PROTOCOL_TIMEOUT", calls[i].method)

C10_Witness ==
  /\ Len(calls) >= 2
  /\ _crashError = "null"
  /\ calls[1].timer = "fired"
  /\ calls[1].outcome = Rejected("PROTOCOL_TIMEOUT", calls[1].method)
  /\ calls[2].timer = "armed"
  /\ calls[2].elapsed > 0
  /\ calls[2].method # calls[1].method

\* C11: the loser of the command/timer race is cancelled: a settled call has no armed
\* timer, so no timer of a settled call fires, and neither a late response of the
\* transport nor anything else changes the outcome of a settled call.
C11_LoserIsCancelled ==
  [][\A i \in 1..Len(calls') :
       /\ calls'[i].outcome.state # "pending" => calls'[i].timer # "armed"
       /\ (i <= Len(calls) /\ Settled(i)) =>
            /\ calls'[i].outcome = calls[i].outcome
            /\ calls'[i].timer = calls[i].timer]_vars

C11_Witness ==
  \E i \in CallIds :
    /\ calls[i].timer = "fired"
    /\ calls[i].outcome = Rejected("PROTOCOL_TIMEOUT", calls[i].method)
    /\ calls[i].result.state = "resolved"
    /\ \E j \in CallIds : calls[j].timer = "cleared" /\ calls[j].outcome.state = "resolved"

\* the events of a transport log, as an event emitter delivers them
Relayed(log) ==
  LET emits == SelectSeq(log, IsEmit) IN
  [k \in 1..Len(emits) |-> [name |-> emits[k].name, args |-> emits[k].args]]

\* C12: until dispose, the session has re-emitted every event the transport emitted,
\* each exactly once, under the same name, with the same arguments in the same order,
\* and in the order the transport emitted them.
C12_RelayIsFaithful ==
  ~detachCalled => emitted = Relayed(transportLog)

C12_Witness ==
  /\ ~detachCalled
  /\ Len(emitted) = 3
  /\ emitted[1] = [name |-> "Tracing.dataCollected", args |-> <<"p1", "p2">>]
  /\ emitted[2] = [name |-> "Inspector.detached", args |-> <<>>]
  /\ emitted[3] = [name |-> "Tracing.dataCollected", args |-> <<"p2", "p1">>]

\* the position of the first entry of a kind in the transport log (0 if none)
FirstOf(kind) ==
  IF \E k \in 1..Len(transportLog) : transportLog[k].kind = kind
  THEN Min({k \in 1..Len(transportLog) : transportLog[k].kind = kind})
  ELSE 0

\* C13: dispose unsubscribes the relay from the transport and then detaches the
\* transport; once it has run, no event of the transport is re-emitted and no crash or
\* detach event of the transport changes the terminal error.
C13_DisposeStopsRelay ==
  [][/\ (~detachCalled /\ detachCalled') =>
          /\ ~subscribed'
          /\ FirstOf("off")' > 0
          /\ FirstOf("off")' < FirstOf("detach")'
     /\ detachCalled =>
          /\ emitted' = emitted
          /\ _crashError' = _crashError
          /\ seen' = seen]_vars

C13_Witness ==
  /\ detachCalled
  /\ _crashError = "null"
  /\ emitted = <<[name |-> "Tracing.dataCollected", args |-> <<"p1">>]>>
  /\ Len(transportLog) = 5
  /\ transportLog[4] = EmitEntry("Inspector.targetCrashed", <<>>)
  /\ transportLog[5] = EmitEntry("Inspector.detached", <<>>)

\* the hook invocations in the gather log, and the artifact ids of a snapshot run
HookIndexes == {k \in 1..Len(gatherLog) : gatherLog[k].kind = "hook"}
HooksOf(g) == {k \in HookIndexes : gatherLog[k].id = g}
InSnapshot == {g \in Gatherers : "snapshot" \in config[g].supportedModes}

\* the error the crash promise has settled with
CrashCode(p) == IF p.state = "rejected" THEN p.code ELSE p.value.lighthouseError

\* the places of a driver step in the gather log
DriverIndexes(step) == {k \in 1..Len(gatherLog) : gatherLog[k] = DriverEntry(step)}
Before(earlier, later) == \A k \in later : \E j \in earlier : j < k

C15_NoStepAfterCrash ==
  [][crashP.state # "pending" => gatherLog' = gatherLog]_vars

\* C16: a hook of a gatherer is invoked only after the hook of every gatherer it
\* depends on, and its `dependencies` hold, under each declared input name, what the
\* producer of that input collected; with B depending on A the bundle of a snapshot
\* run holds 'Artifact A' and 'Artifact B' and B was called with A's value.
C16_DependenciesFirst ==
  \A k \in HookIndexes :
    LET e == gatherLog[k]
        declared == config[e.id].dependencies IN
      /\ DOMAIN e.dependencies = DOMAIN declared
      /\ \A n \in DOMAIN declared :
           /\ \E j \in HooksOf(declared[n]) : j < k
           /\ artifactState[declared[n]] # "none"
           /\ e.dependencies[n] = artifactState[declared[n]]

C16_Witness ==
  /\ pc = "done"
  /\ {"A", "B"} \subseteq InSnapshot
  /\ DOMAIN config["A"].dependencies = {}
  /\ DOMAIN config["B"].dependencies = {"ImageElements"}
  /\ config["B"].dependencies["ImageElements"] = "A"
  /\ Logged(HookEntry("B", "getArtifact", [n \in {"ImageElements"} |-> "Artifact A"]))
  /\ runnerGatherP.state = "resolved"
  /\ runnerGatherP.value["A"] = "Artifact A"
  /\ runnerGatherP.value["B"] = "Artifact B"

\* C17: a gatherer whose supportedModes lacks 'snapshot' takes no part in a snapshot
\* run: none of its hooks is invoked, nothing is collected for it, and the bundle has
\* no key for its id.
C17_OtherModesSkipped ==
  \A g \in Gatherers \ InSnapshot :
    /\ HooksOf(g) = {}
    /\ artifactState[g] = "none"
    /\ runnerGatherP.state = "resolved" => g \notin DOMAIN runnerGatherP.value

C17_Witness ==
  /\ pc = "done"
  /\ config["B"].supportedModes = {"timespan"}
  /\ runnerGatherP.state = "resolved"
  /\ "B" \notin DOMAIN runnerGatherP.value
  /\ "A" \in DOMAIN runnerGatherP.value
  /\ runnerGatherP.value["A"] = "Artifact A"

\* C18: a snapshot run invokes no hook but getArtifact, at most once per gatherer, and
\* once collectPhaseArtifacts has returned, exactly once for every participating
\* gatherer.
C18_OnlyGetArtifact ==
  /\ \A k \in HookIndexes : gatherLog[k].hook = "getArtifact"
  /\ \A g \in Gatherers : Cardinality(HooksOf(g)) <= 1
  /\ pc \in {"disconnect", "finalizeArtifacts", "done"} =>
       \A g \in InSnapshot : Cardinality(HooksOf(g)) = 1

C18_Witness ==
  /\ pc = "done"
  /\ InSnapshot = Gatherers
  /\ \A g \in Gatherers : Cardinality(HooksOf(g)) = 1
  /\ Len(gatherLog) = 7

\* C19: a getArtifact that fails does not fail the run: the gather function fails only
\* on a driver step, a finished run settles with a bundle that holds, for every
\* participating gatherer, what it collected, its failure included, and the hook of a
\* dependent gatherer receives the failure of its producer as the dependency's value.
C19_FailureIsolated ==
  /\ pc = "failed" =>
       (gatherLog # <<>> /\ gatherLog[Len(gatherLog)].kind = "driver")
  /\ pc = "done" =>
       /\ runnerGatherP.state = "resolved"
       /\ \A g \in InSnapshot :
            /\ g \in DOMAIN runnerGatherP.value
            /\ runnerGatherP.value[g] = artifactState[g]
            /\ artifactState[g] \in {ArtifactValue(g), ArtifactError(g)}
  /\ \A k \in HookIndexes :
       \A n \in DOMAIN config[gatherLog[k].id].dependencies :
         LET d == config[gatherLog[k].id].dependencies[n] IN
           artifactState[d] = ArtifactError(d) =>
             (n \in DOMAIN gatherLog[k].dependencies
               /\ gatherLog[k].dependencies[n] = ArtifactError(d))

C19_Witness ==
  /\ pc = "done"
  /\ InSnapshot = Gatherers
  /\ result.state = "resolved"
  /\ result.value.artifacts["A"] = "Error A"
  /\ result.value.artifacts["B"] = "Artifact B"
  /\ result.value.artifacts["C"] = "Artifact C"
  /\ DOMAIN config["B"].dependencies = {}
  /\ \E j \in HooksOf("A"), k \in HooksOf("B") : j < k
  /\ Logged(HookEntry("C", "getArtifact",
              [n \in {"DevtoolsLog", "ImageElements"} |->
                 IF n = "DevtoolsLog" THEN "Error A" ELSE "Artifact B"]))

\* the participating gatherers of a snapshot run depend on each other in a cycle
Cyclic ==
  \E path \in UNION {[1..n -> InSnapshot] : n \in 2..(Cardinality(InSnapshot) + 1)} :
    /\ path[1] = path[Len(path)]
    /\ \A k \in 1..(Len(path) - 1) : path[k + 1] \in DependsOn(config, path[k])

\* C20: a run whose participating gatherers depend on each other in a cycle is
\* rejected with a configuration error before any hook or driver step is invoked, and
\* leaves the session and the artifact state as they were.
C20_CycleRejected ==
  (Cyclic /\ pc # "initializeConfig") =>
    /\ pc = "rejected"
    /\ result = Rejected("ConfigurationError", "none")
    /\ gatherLog = <<>>
    /\ \A g \in Gatherers : artifactState[g] = "none"
    /\ runnerGatherP.state = "pending"
    /\ _crashError = "null" /\ calls = <<>> /\ subscribed /\ ~detachCalled
    /\ _nextProtocolTimeout = Undefined

C20_Witness ==
  /\ pc = "rejected"
  /\ InSnapshot = Gatherers
  /\ DependsOn(config, "A") = {"B"}
  /\ DependsOn(config, "B") = {"C"}
  /\ DependsOn(config, "C") = {"A"}
  /\ result = Rejected("ConfigurationError", "none")

\* C21: in every run each participating gatherer's hooks are invoked at most once per
\* phase, in the order startInstrumentation, startSensitiveInstrumentation,
\* stopSensitiveInstrumentation, stopInstrumentation, getArtifact, and the sweeps are
\* barriers: when a hook of a phase starts on any gatherer, every hook invoked in the
\* earlier phases has completed, on every participating gatherer; a gatherer that does
\* not participate has no hook invoked.
C21_SweepsAreBarriers ==
  [][\A g \in Gatherers : \A p \in DOMAIN Phases :
       LET phase == Phases[p] IN
         /\ sweep'.invoked[g][phase] <= 1
         /\ sweep'.settled[g][phase] <= sweep'.invoked[g][phase]
         /\ sweep'.invoked[g][phase] > 0 => sweep'.mode \in config[g].supportedModes
         /\ sweep'.invoked[g][phase] > sweep.invoked[g][phase] =>
              \A h \in Gatherers : \A q \in 1..(p - 1) :
                /\ sweep.settled[h][Phases[q]] = sweep.invoked[h][Phases[q]]
                /\ (sweep.mode # "snapshot" /\ sweep.mode \in config[h].supportedModes) =>
                     sweep.settled[h][Phases[q]] = 1
                /\ \A r \in (p + 1)..Len(Phases) : sweep.invoked[h][Phases[r]] = 0]_vars

C21_Witness ==
  /\ pc = "done"
  /\ sweep.mode = "timespan"
  /\ sweep.activity = 1
  /\ \A g \in Gatherers :
       /\ "timespan" \in config[g].supportedModes
       /\ \A p \in PhaseNames : sweep.invoked[g][p] = 1 /\ sweep.settled[g][p] = 1
  /\ result.state = "resolved"

C23_BundleOrError ==
  /\ result.state = "resolved" =>
       /\ DOMAIN result.value = {"artifacts", "runnerOptions"}
       /\ ~IsLighthouseError(result.value.artifacts)
       /\ runnerGatherP.state = "resolved"
       /\ result.value.artifacts = runnerGatherP.value
       /\ DOMAIN result.value.artifacts = DOMAIN BaseArtifacts \cup InSnapshot
       /\ result.value.runnerOptions = RunnerOptions(config)
  /\ result.state = "rejected" =>
       result.code \in CrashCodes \cup {"DriverError", "ConfigurationError"}
  /\ (crashP.state # "pending" \/ runnerGatherP.state # "pending") =>
       result.state # "pending"

C23_Witness ==
  /\ crashP.state = "resolved"
  /\ IsLighthouseError(crashP.value)
  /\ runnerGatherP.state = "resolved"
  /\ result.state = "rejected"
  /\ result.code = "TARGET_DETACHED"

\* the commands JsUsage sends in a run that calls both instrumentation hooks
ProfilerOrder ==
  <<"Profiler.enable", "Profiler.startPreciseCoverage", "Profiler.takePreciseCoverage",
    "Profiler.stopPreciseCoverage", "Profiler.disable">>

\* C28: JsUsage sends its commands one at a time and in a fixed order, enable and
\* startPreciseCoverage from startInstrumentation, then takePreciseCoverage,
\* stopPreciseCoverage and disable from stopInstrumentation: a command is sent only
\* when every command before it has resolved, so nothing is sent after a command that
\* failed, and a failed takePreciseCoverage leaves the stored script usages as they were.
C28_CommandsOneAtATime ==
  [][LET sent == jsUsage'.sent IN
       /\ Len(sent) <= Len(ProfilerOrder)
       /\ \A k \in 1..Len(sent) :
            /\ sent[k].method = ProfilerOrder[k]
            /\ sent[k].hook = IF k <= 2 THEN "startInstrumentation" ELSE "stopInstrumentation"
            /\ k < Len(sent) => sent[k].state = "resolved"
       /\ Len(sent) > Len(jsUsage.sent) =>
            (Len(sent) = Len(jsUsage.sent) + 1 /\ sent[Len(sent)].state = "pending")
       /\ (Len(sent) >= 3 /\ sent[3].state # "resolved") =>
            (_scriptUsages' = _scriptUsages /\ _scriptUsages' = <<>>)]_vars

C28_Witness ==
  /\ jsUsage.mode = "navigation"
  /\ Len(jsUsage.sent) = 5
  /\ jsUsage.sent[5].method = "Profiler.disable"
  /\ jsUsage.sent[5].state = "resolved"
  /\ jsUsage.completed = {"startInstrumentation", "stopInstrumentation"}
  /\ Len(_scriptUsages) = 2

\* the map a list of script usages stands for: per scriptId the last entry of the
\* list with that id, evaluation scripts of puppeteer left out
KeptUsages(usages) ==
  {k \in 1..Len(usages) : usages[k].url # "__puppeteer_evaluation_script__"}
ExpectedUsages(usages) ==
  [id \in {usages[k].scriptId : k \in KeptUsages(usages)} |->
     usages[CHOOSE k \in KeptUsages(usages) :
              /\ usages[k].scriptId = id
              /\ \A j \in KeptUsages(usages) : usages[j].scriptId = id => j <= k]]

C30_StepsInOrder ==
  /\ \A step \in {"connect", "url", "getBaseArtifacts", "disconnect"} :
       Cardinality(DriverIndexes(step)) <= 1
  /\ Before(DriverIndexes("connect"), DriverIndexes("url"))
  /\ Before(DriverIndexes("url"), DriverIndexes("getBaseArtifacts"))
  /\ Before(DriverIndexes("getBaseArtifacts"), HookIndexes)
  /\ Before(DriverIndexes("getBaseArtifacts"), DriverIndexes("disconnect"))
  /\ \A d \in DriverIndexes("disconnect") :
       /\ \A k \in HookIndexes : k < d
       /\ \A g \in InSnapshot : HooksOf(g) # {} /\ artifactState[g] # "none"
  /\ pc = "finalizeArtifacts" =>
       (DriverIndexes("disconnect") # {} /\ runnerGatherP.state = "pending")
  /\ runnerGatherP.state = "resolved" =>
       (Cardinality(DriverIndexes("disconnect")) = 1
         /\ gatherLog[Len(gatherLog)] = DriverEntry("disconnect"))
  /\ pc = "failed" =>
       /\ gatherLog[Len(gatherLog)].kind = "driver"
       /\ gatherLog[Len(gatherLog)].hook # "disconnect" => DriverIndexes("disconnect") = {}

C30_Witness ==
  /\ pc = "done"
  /\ InSnapshot = Gatherers
  /\ Len(gatherLog) = 7
  /\ gatherLog[1] = DriverEntry("connect")
  /\ gatherLog[2] = DriverEntry("url")
  /\ gatherLog[3] = DriverEntry("getBaseArtifacts")
  /\ gatherLog[7] = DriverEntry("disconnect")
  /\ runnerGatherP.state = "resolved"

\* C24: the terminal error depends only on which crash and detach events reached the
\* session, not on their order: TARGET_CRASHED if a crash event did, TARGET_DETACHED
\* if a detach event and no crash event did, null if neither did.
C24_ErrorFollowsEventSet ==
  _crashError = IF crashDelivered THEN "TARGET_CRASHED"
                ELSE IF detachDelivered THEN "TARGET_DETACHED"
                ELSE "null"

C24_Witness ==
  /\ Len(emitted) = 3
  /\ emitted[1].name = "Inspector.detached"
  /\ emitted[2].name = "Inspector.targetCrashed"
  /\ emitted[3].name = "Inspector.detached"
  /\ _crashError = "TARGET_CRASHED"

\* C25: with several calls in flight every call keeps the timeout, the timer delay
\* and the timer argument it got when it was issued, whatever override is set later;
\* a new call takes the override set since the previous call (the default if none was)
\* and clears it; and the timer of a call is cleared only when that call settles and
\* fires only when its own delay has elapsed, never because another call settles.
C25_TimersArePerCall ==
  [][/\ \A i \in CallIds :
          /\ calls'[i].timeoutMs = calls[i].timeoutMs
          /\ calls'[i].delay = calls[i].delay
          /\ calls'[i].timerArg = calls[i].timerArg
          /\ calls'[i].timer # calls[i].timer =>
               /\ calls[i].timer = "armed"
               /\ calls'[i].timer = "cleared" =>
                    (~Settled(i) /\ calls'[i].outcome = calls'[i].result)
               /\ calls'[i].timer = "fired" => calls[i].elapsed = calls[i].delay
               /\ \A j \in CallIds \ {i} : calls'[j] = calls[j]
     /\ Len(calls') = Len(calls) + 1 =>
          /\ calls'[Len(calls')].timeoutMs = getNextProtocolTimeout(_nextProtocolTimeout)
          /\ pendingMs = Undefined =>
               calls'[Len(calls')].timeoutMs = DEFAULT_PROTOCOL_TIMEOUT
          /\ _nextProtocolTimeout' = Undefined]_vars

C25_Witness ==
  /\ Len(calls) = 2
  /\ calls[1].timeoutMs = 5000
  /\ calls[1].timer = "fired"
  /\ calls[2].timeoutMs = DEFAULT_PROTOCOL_TIMEOUT
  /\ calls[2].timer = "armed"
  /\ calls[2].elapsed > 0
  /\ calls[2].outcome.state = "pending"
  /\ _nextProtocolTimeout = MAX_TIMEOUT

\* C26: the timeout handed to the transport is the effective timeout of the call plus
\* 50 ms, so the timer of the session is due strictly before the transport's, and it
\* never exceeds 2147483647, whatever override went through setNextProtocolTimeout.
C26_TransportTimeoutBuffered ==
  \A i \in CallIds :
    /\ calls[i].transportTimeout = calls[i].timeoutMs + 50
    /\ calls[i].delay < calls[i].transportTimeout
    /\ calls[i].transportTimeout <= 2147483647

C26_Witness ==
  /\ Len(calls) = 2
  /\ calls[1].timeoutMs = MAX_TIMEOUT
  /\ calls[1].transportTimeout = 2147483647
  /\ calls[2].transportTimeout = 5050

\* C27: an override of 0 reads as no override: after setNextProtocolTimeout(0)
\* hasNextProtocolTimeout() is true but getNextProtocolTimeout() is 30000 and the next
\* sendCommand uses 30000 ms; after setNextProtocolTimeout(ms) with ms > 0
\* getNextProtocolTimeout() is min(ms, MAX_TIMEOUT); and after every sendCommand
\* hasNextProtocolTimeout() is false.
C27_ZeroOverrideReadsAsDefault ==
  [][/\ pendingMs' = 0 =>
          /\ hasNextProtocolTimeout(_nextProtocolTimeout')
          /\ getNextProtocolTimeout(_nextProtocolTimeout') = 30000
     /\ pendingMs' > 0 =>
          getNextProtocolTimeout(_nextProtocolTimeout') = Min({pendingMs', MAX_TIMEOUT})
     /\ Len(calls') = Len(calls) + 1 =>
          /\ ~hasNextProtocolTimeout(_nextProtocolTimeout')
          /\ pendingMs = 0 => calls'[Len(calls')].timeoutMs = 30000]_vars

C27_Witness ==
  /\ pendingMs = 0
  /\ _nextProtocolTimeout = 0
  /\ Len(calls) = 1
  /\ calls[1].timeoutMs = 5000

====
